---- MODULE Spec2Model ----
(***************************************************************************)
(* Game Save Backup Manager: the backup catalog engine (package backup,    *)
(* package services) and the interaction state machine (ui.Controller,     *)
(* views.MainMenuHandler, app.Application, state.StateManager).            *)
(*                                                                         *)
(* The filesystem is a function from path strings to file contents; each   *)
(* backup directory that holds an initialised backups.db maps to its table.*)
(* Every handler is a function from a snapshot record of the whole state   *)
(* to the snapshot after the handler returned.                             *)
(***************************************************************************)
EXTENDS Integers, Sequences, FiniteSets, TLC

(***************************************************************************)
(* Bounds of the model.                                                    *)
(***************************************************************************)
MaxContent == 2       \* file contents are 1..MaxContent
MaxInserts == 2       \* backup files written in one session (the clock advances with
                      \* each of them)
MaxRun == 3           \* backup files written in the specification of repeated creation
TicksPerSecond == 2   \* clock ticks that share one formatted second
MaxText == 1          \* characters the text input can hold
MaxTimers == 1        \* notification timers in flight
MaxPending == 2       \* notification timers in flight in the specification of notifications
MaxDelete == 2        \* records in one direct DeleteBackups call

Contents == 1..MaxContent

Nil == "<nil>"

\* the messages Update receives: key presses, the notification timer, the result of
\* opening the database, an error
Msg(type, key, e) == [type |-> type, key |-> key, err |-> e]
Key(k) == Msg("key", k, Nil)
ClearNotificationMsg == Msg("clear", "", Nil)
DatabaseInitializedMsg == Msg("dbinit", "", Nil)
ErrorMsg(e) == Msg("error", "", e)

(***************************************************************************)
(* Strings and paths.                                                      *)
(***************************************************************************)
\* filepath.Join(dir, file) for the clean, relative-free paths of the model
Join(dir, file) == dir \o "/" \o file

\* backupDir/<name>.sav
BackupPath(backupDir, backupName) == Join(backupDir, backupName \o ".sav")

\* a suffix that runs one ahead of the counter
SuffixedAhead(baseName, counter) == baseName \o "_" \o ToString(counter + 1)

\* fmt.Sprintf("%s_%d", baseName, counter)
Suffixed(baseName, counter) == baseName \o "_" \o ToString(counter)

TwoDigits(n) == IF n < 10 THEN "0" \o ToString(n) ELSE ToString(n)

\* time.Format("2006-01-02_15-04-05"): the clock truncated to whole seconds
Format(t) == "2024-01-01_10-00-" \o TwoDigits(t \div TicksPerSecond)

\* fmt.Sprintf("Backup_%s", time.Now().Format(...))
AutoName(t) == "Backup_" \o Format(t)

\* the text input's value as a string
RECURSIVE Str(_)
Str(chars) == IF chars = <<>> THEN "" ELSE Head(chars) \o Str(Tail(chars))

RECURSIVE TrimLeft(_)
TrimLeft(chars) ==
    IF chars # <<>> /\ Head(chars) = " " THEN TrimLeft(Tail(chars)) ELSE chars

RECURSIVE TrimRight(_)
TrimRight(chars) ==
    IF chars # <<>> /\ chars[Len(chars)] = " "
    THEN TrimRight(SubSeq(chars, 1, Len(chars) - 1))
    ELSE chars

\* strings.TrimSpace
TrimSpace(chars) == TrimRight(TrimLeft(chars))

(***************************************************************************)
(* The filesystem.                                                         *)
(***************************************************************************)
Exists(fs, path) == path \in DOMAIN fs

WriteFile(fs, path, data) ==
    [p \in DOMAIN fs \cup {path} |-> IF p = path THEN data ELSE fs[p]]

Remove(fs, path) == [p \in DOMAIN fs \ {path} |-> fs[p]]

\* the paths whose file differs between two filesystems
Touched(fs1, fs2) ==
    {p \in DOMAIN fs1 \cup DOMAIN fs2 :
        \/ Exists(fs1, p) # Exists(fs2, p)
        \/ Exists(fs1, p) /\ fs1[p] # fs2[p]}

(***************************************************************************)
(* The catalog: one table per initialised backup directory.                *)
(***************************************************************************)
EmptyTable == [rows |-> {}, seq |-> 0]

\* no config.json on disk
NoConfigFile == [SavePath |-> Nil, BackupDir |-> Nil, AutoBackup |-> FALSE]

\* config.Load when no config.json exists
DefaultConfig == [SavePath |-> "", BackupDir |-> "", AutoBackup |-> TRUE]

Backup(id, name, path, createdAt) ==
    [ID |-> id, Name |-> name, Path |-> path, CreatedAt |-> createdAt]

Rows(S) == IF S.db = Nil THEN {} ELSE S.dbs[S.db].rows

\* ORDER BY created_at DESC
RECURSIVE SortDesc(_)
SortDesc(rows) ==
    IF rows = {} THEN <<>>
    ELSE LET newest == CHOOSE b \in rows :
                          \A c \in rows : c.CreatedAt < b.CreatedAt \/ c = b
                                          \/ (c.CreatedAt = b.CreatedAt /\ c.ID <= b.ID)
         IN <<newest>> \o SortDesc(rows \ {newest})

(***************************************************************************)
(* Bookkeeping of the verification: what the last step invoked, which      *)
(* backup files are untouched since their creation, and the current run of *)
(* same-name CreateBackup calls.                                           *)
(***************************************************************************)
NoRun == [name |-> Nil, dir |-> "", paths |-> <<>>, clean |-> FALSE]

\* one engine call of the step being taken
Call(op, arg, fault, ok, out) ==
    [op |-> op, arg |-> arg, fault |-> fault, ok |-> ok, out |-> out]

Log(S, call) == [S EXCEPT !.last.ops = Append(@, call)]

\* records whose file a filesystem change leaves alone
Untouched(origin, fs1, fs2) == {o \in origin : o.rec.Path \notin Touched(fs1, fs2)}

\* the record of a new backup made while the source file held `data`
Originate(S, b, data) == IF S.track THEN S.origin \cup {[rec |-> b, data |-> data]} ELSE S.origin

\* no file <name>.sav or <name>_k.sav in the directory
Clean(fs, dir, name) ==
    /\ ~Exists(fs, BackupPath(dir, name))
    /\ \A k \in 1..MaxRun : ~Exists(fs, BackupPath(dir, Suffixed(name, k)))

\* the run of same-name calls after a call with requested name `name` wrote `path`;
\* clean: the run began with no file of that name, suffixed or not, in the directory
NextRun(S, dir, name, path) ==
    IF ~S.track THEN NoRun
    ELSE IF S.seqRun.name = name /\ S.seqRun.dir = dir
         THEN [S.seqRun EXCEPT !.paths = Append(@, path)]
    ELSE [name |-> name, dir |-> dir, paths |-> <<path>>,
          clean |-> name # "" /\ Clean(S.fs, dir, name)]

\* a filesystem change that removes or rewrites files outside CreateBackup
ChangeFs(S, fs2) ==
    [S EXCEPT !.fs = fs2,
              !.origin = Untouched(S.origin, S.fs, fs2),
              !.seqRun = IF \E p \in DOMAIN S.fs : ~Exists(fs2, p) THEN NoRun ELSE @]

(***************************************************************************)
(* package backup: DB.CreateBackup, DB.RestoreBackup, DB.DeleteBackups,    *)
(* DB.GetBackups, InitDB.                                                  *)
(***************************************************************************)
CreateFaults == {"none", "stat", "read", "write", "insert"}
RestoreFaults == {"none", "read", "write"}

\* no collision loop: the requested name, taken or not
FirstCandidate(fs, backupDir, baseName, backupName, counter) == backupName

\* the collision loop: the first of name, base_1, base_2, ... whose path is unused
RECURSIVE ResolveName(_, _, _, _, _)
ResolveName(fs, backupDir, baseName, backupName, counter) ==
    IF ~Exists(fs, BackupPath(backupDir, backupName)) THEN backupName
    ELSE ResolveName(fs, backupDir, baseName, Suffixed(baseName, counter), counter + 1)

\* the name taken as it was given, empty or not
NameAsGiven(backupName, t) == backupName

\* the name CreateBackup starts from: an empty name becomes Backup_<timestamp>
GivenName(backupName, t) == IF backupName = "" THEN AutoName(t) ELSE backupName

\* an empty backup file
EmptyData(fs, savePath) == 0

\* the bytes CreateBackup writes to the backup file
BackupData(fs, savePath) == fs[savePath]

\* an insert failure that takes the copied file away again
DropCopy(S, wrote) == [wrote EXCEPT !.fs = S.fs]

\* the state an insert failure returns in: the copy is written and not cleaned up
KeepCopy(S, wrote) == wrote

DBCreateBackup(S, savePath, backupDir, backupName, fault) ==
    LET given == GivenName(backupName, S.now)
        resolved == ResolveName(S.fs, backupDir, given, given, 1)
        path == BackupPath(backupDir, resolved)
        data == BackupData(S.fs, savePath)
        fs2 == WriteFile(S.fs, path, data)
        failed(e) == [Log(S, Call("CreateBackup", backupName, fault, FALSE, "")) EXCEPT !.ret = e]
        wrote == [S EXCEPT !.fs = fs2,
                           !.origin = Untouched(S.origin, S.fs, fs2),
                           !.seqRun = NextRun(S, backupDir, backupName, path),
                           !.now = @ + 1]
        b == Backup(S.dbs[S.db].seq + 1, resolved, path, S.now)
        made == [Name |-> resolved, Path |-> path]
    IN  IF ~Exists(S.fs, savePath) THEN failed("save file not found")
        ELSE IF fault = "stat"
            THEN [Log(S, Call("CreateBackup", backupName, fault, FALSE, "")) EXCEPT !.run = "hung"]
        ELSE IF fault = "read" THEN failed("read error")
        ELSE IF fault = "write" THEN failed("write error")
        ELSE IF S.db = Nil
            THEN [Log(wrote, Call("CreateBackup", backupName, fault, FALSE, made))
                     EXCEPT !.run = "panic"]
        ELSE IF fault = "insert"
            THEN [Log(KeepCopy(S, wrote), Call("CreateBackup", backupName, fault, FALSE, made))
                     EXCEPT !.ret = "insert error"]
        ELSE [Log(wrote, Call("CreateBackup", backupName, fault, TRUE, made))
                 EXCEPT !.dbs[S.db] = [rows |-> @.rows \cup {b}, seq |-> @.seq + 1],
                        !.origin = Originate(wrote, b, S.fs[savePath]),
                        !.ret = Nil]

DBGetBackups(S) == SortDesc(Rows(S))

DBRestoreBackup(S, b, savePath, fault) ==
    IF ~Exists(S.fs, b.Path) \/ fault = "read"
    THEN [Log(S, Call("RestoreBackup", b, fault, FALSE, "")) EXCEPT !.ret = "read error"]
    ELSE IF fault = "write"
    THEN [Log(S, Call("RestoreBackup", b, fault, FALSE, "")) EXCEPT !.ret = "write error"]
    ELSE [Log(ChangeFs(S, WriteFile(S.fs, savePath, S.fs[b.Path])),
              Call("RestoreBackup", b, fault, TRUE, savePath))
             EXCEPT !.ret = Nil]

\* whether os.Remove(b.Path) succeeds for the i-th record
RemoveSucceeds(fs, b, i, rmFail) == Exists(fs, b.Path) /\ i \notin rmFail

\* a loop that gives up with an error at the first file it cannot remove
RECURSIVE DeleteLoopStrict(_, _, _, _, _, _)
DeleteLoopStrict(fs, rows, backups, i, rmFail, dbAt) ==
    IF i > Len(backups) THEN [fs |-> fs, rows |-> rows, err |-> FALSE]
    ELSE IF ~RemoveSucceeds(fs, backups[i], i, rmFail)
        THEN [fs |-> fs, rows |-> rows, err |-> TRUE]
    ELSE IF dbAt = i
        THEN [fs |-> Remove(fs, backups[i].Path), rows |-> rows, err |-> TRUE]
    ELSE DeleteLoopStrict(Remove(fs, backups[i].Path),
                          {r \in rows : r.ID # backups[i].ID}, backups, i + 1, rmFail, dbAt)

\* the loop of DeleteBackups from the i-th record on; dbAt is the record whose
\* DELETE statement fails
RECURSIVE DeleteLoop(_, _, _, _, _, _)
DeleteLoop(fs, rows, backups, i, rmFail, dbAt) ==
    IF i > Len(backups) THEN [fs |-> fs, rows |-> rows, err |-> FALSE]
    ELSE IF ~RemoveSucceeds(fs, backups[i], i, rmFail)
        THEN DeleteLoop(fs, rows, backups, i + 1, rmFail, dbAt)
    ELSE IF dbAt = i
        THEN [fs |-> Remove(fs, backups[i].Path), rows |-> rows, err |-> TRUE]
    ELSE DeleteLoop(Remove(fs, backups[i].Path),
                    {r \in rows : r.ID # backups[i].ID}, backups, i + 1, rmFail, dbAt)

\* a transaction that never takes effect
RowsKept(rows, result, failed) == rows

\* a transaction whose failure leaves the statements already executed in effect
NoRollback(rows, result, failed) == result.rows

\* the table after the transaction ended: committed rows, or the rows it began with
Committed(rows, result, failed) == IF failed THEN rows ELSE result.rows

\* fault.dbAt: 0 = Begin fails, i = the i-th DELETE fails, Len + 1 = Commit fails
DBDeleteBackups(S, backups, fault) ==
    LET r == DeleteLoop(S.fs, S.dbs[S.db].rows, backups, 1, fault.rm, fault.dbAt)
        failed == r.err \/ fault.dbAt = Len(backups) + 1
    IN  IF S.db = Nil
        THEN [Log(S, Call("DeleteBackups", backups, fault, FALSE, "")) EXCEPT !.run = "panic"]
        ELSE IF fault.dbAt = 0
        THEN [Log(S, Call("DeleteBackups", backups, fault, FALSE, "")) EXCEPT !.ret = "begin error"]
        ELSE [Log(ChangeFs(S, r.fs), Call("DeleteBackups", backups, fault, ~failed, ""))
                 EXCEPT !.dbs[S.db].rows = Committed(@, r, failed),
                        !.ret = IF failed THEN "transaction error" ELSE Nil]

\* validation.IsWritable: MkdirAll and a test file written into the directory; both
\* fail where a file stands at the path
IsWritable(fs, dir) == ~Exists(fs, dir)

\* MkdirAll, sql.Open, CREATE TABLE IF NOT EXISTS
InitDB(S, backupDir, fault) ==
    IF fault \/ Exists(S.fs, backupDir) THEN [S EXCEPT !.ret = "init error"]
    ELSE [S EXCEPT !.dbs = IF backupDir \in DOMAIN S.dbs THEN @
                           ELSE [d \in DOMAIN @ \cup {backupDir} |->
                                    IF d = backupDir THEN EmptyTable ELSE @[d]],
                   !.db = backupDir,
                   !.ret = Nil]

(***************************************************************************)
(* package config: Config.Save.                                            *)
(***************************************************************************)
ConfigSave(S, fault) ==
    IF fault THEN [S EXCEPT !.ret = "config write error"]
    ELSE [S EXCEPT !.cfgFile = S.config, !.ret = Nil]

(***************************************************************************)
(* package services: BackupService.                                        *)
(***************************************************************************)
NoDeleteFault == [rm |-> {}, dbAt |-> -1]
NoFault == [create |-> "none", restore |-> "none", del |-> NoDeleteFault,
            save |-> FALSE, list |-> FALSE]

\* a CreateBackup that takes a missing source file for an empty one
SvcCreateFromEmpty(S, name, fault) ==
    LET savePath == S.config.SavePath
        T == DBCreateBackup([S EXCEPT !.fs = WriteFile(@, savePath, 0)],
                            savePath, S.config.BackupDir, name, fault)
    IN  IF Exists(S.fs, savePath)
        THEN DBCreateBackup(S, savePath, S.config.BackupDir, name, fault)
        ELSE [T EXCEPT !.fs = Remove(@, savePath)]

SvcCreateBackup(S, name, fault) ==
    DBCreateBackup(S, S.config.SavePath, S.config.BackupDir, name, fault)

\* a restore that empties the source file before it reads the backup
SvcRestoreTruncating(S, b, fault) ==
    LET T == DBRestoreBackup(S, b, S.config.SavePath, fault)
    IN  IF T.ret = "read error"
        THEN [T EXCEPT !.fs = WriteFile(@, S.config.SavePath, 0)]
        ELSE T

SvcRestoreBackup(S, b, fault) == DBRestoreBackup(S, b, S.config.SavePath, fault)

\* a service that refuses an empty list, as Application.DeleteSelectedBackups does
SvcDeleteNonEmpty(S, backups, fault) ==
    IF Len(backups) = 0 THEN [S EXCEPT !.ret = "no backups selected for deletion"]
    ELSE DBDeleteBackups(S, backups, fault)

SvcDeleteBackups(S, backups, fault) == DBDeleteBackups(S, backups, fault)

\* GetBackupItems: an error when the handle is nil or the query fails
SvcGetBackupItems(S, fault) ==
    IF S.db = Nil THEN [S EXCEPT !.ret = "database not initialized"]
    ELSE IF fault
        THEN [Log(S, Call("GetBackups", "", "query", FALSE, "")) EXCEPT !.ret = "query error"]
    ELSE [Log(S, Call("GetBackups", "", "none", TRUE, DBGetBackups(S))) EXCEPT !.ret = Nil]

\* the records at the selected positions, in listing order
RECURSIVE SelectedFrom(_, _, _)
SelectedFrom(items, selected, i) ==
    IF i > Len(items) THEN <<>>
    ELSE (IF (i - 1) \in selected THEN <<items[i]>> ELSE <<>>)
         \o SelectedFrom(items, selected, i + 1)

GetSelectedBackups(items, selected) == SelectedFrom(items, selected, 1)

SvcInitializeDatabase(S, fault) ==
    IF S.config.BackupDir = ""
    THEN [S EXCEPT !.ret = "configuration is missing or invalid"]
    ELSE InitDB(S, S.config.BackupDir, fault)

(***************************************************************************)
(* package state and package app: StateManager, NotificationManager and    *)
(* the Application methods the handlers call.                              *)
(***************************************************************************)
TransitionTo(S, newState) == [S EXCEPT !.previous = S.state, !.state = newState]

\* NotificationManager.Show: set the message and start a timer
ShowNotification(S, msg) == [S EXCEPT !.message = msg, !.timers = @ + 1]

\* a clear that leaves the message on display
KeepNotification(S) == S

ClearNotification(S) == [S EXCEPT !.message = ""]

SetError(S, e) == [S EXCEPT !.err = e]

HasError(S) == S.err # Nil

ClearSelections(S) == [S EXCEPT !.selected = {}]

ClearTextInput(S) == [S EXCEPT !.textInput = <<>>]

ResetListSelection(S) == [S EXCEPT !.index = 0]

\* RefreshBackupList: a failed fetch becomes an error message in flight
RefreshBackupList(S, fault) ==
    LET R == SvcGetBackupItems(S, fault)
    IN  IF R.ret # Nil
        THEN [R EXCEPT !.inbox = @ \cup {ErrorMsg(R.ret)}]
        ELSE [R EXCEPT !.items = DBGetBackups(S)]

\* Application.Init: the command that opens the database, only when initializing
AppInit(S) == IF S.state = "InitializingView" THEN [S EXCEPT !.initPending = TRUE] ELSE S

AppDeleteSelectedBackups(S, fault) ==
    LET selectedBackups == GetSelectedBackups(S.items, S.selected)
    IN  IF Len(selectedBackups) = 0
        THEN [S EXCEPT !.ret = "no backups selected for deletion"]
        ELSE SvcDeleteBackups(S, selectedBackups, fault)

AppUpdateSavePath(S, newPath, fault) ==
    ConfigSave([S EXCEPT !.config.SavePath = newPath], fault)

AppUpdateBackupDir(S, newDir, fault) ==
    ConfigSave([S EXCEPT !.config.BackupDir = newDir], fault)

AppToggleAutoBackup(S, fault) ==
    ConfigSave([S EXCEPT !.config.AutoBackup = ~@], fault)

\* the restore that follows the optional auto-backup
RestoreAfterAutoBackup(S, b, fault) == SvcRestoreBackup(S, b, fault)

\* the restore done first, the automatic backup after it
RestoreThenAutoBackup(S, F) ==
    IF S.index >= Len(S.items) THEN [S EXCEPT !.ret = "no backup selected"]
    ELSE LET backupToRestore == S.items[S.index + 1]
             R == SvcRestoreBackup(S, backupToRestore, F.restore)
         IN  IF S.config.AutoBackup /\ R.ret = Nil
             THEN SvcCreateBackup(R, AutoName(R.now), F.create)
             ELSE R

\* the restore done whether or not the automatic backup succeeded
RestoreDespiteFailure(S, F) ==
    IF S.index >= Len(S.items) THEN [S EXCEPT !.ret = "no backup selected"]
    ELSE LET backupToRestore == S.items[S.index + 1]
             A == SvcCreateBackup(S, AutoName(S.now), F.create)
         IN  IF S.config.AutoBackup /\ A.run = "running"
             THEN RestoreAfterAutoBackup(A, backupToRestore, F.restore)
             ELSE IF S.config.AutoBackup THEN A
             ELSE SvcRestoreBackup(S, backupToRestore, F.restore)

\* the automatic backup made whether the flag is on or off
RestoreAlwaysBackingUp(S, F) ==
    IF S.index >= Len(S.items) THEN [S EXCEPT !.ret = "no backup selected"]
    ELSE LET backupToRestore == S.items[S.index + 1]
             A == SvcCreateBackup(S, AutoName(S.now), F.create)
         IN  IF A.run # "running" THEN A
             ELSE IF A.ret # Nil THEN [A EXCEPT !.ret = "failed to create auto-backup"]
             ELSE RestoreAfterAutoBackup(A, backupToRestore, F.restore)

AppRestoreSelectedBackupWithAutoBackup(S, F) ==
    IF S.index >= Len(S.items) THEN [S EXCEPT !.ret = "no backup selected"]
    ELSE LET backupToRestore == S.items[S.index + 1]
             A == SvcCreateBackup(S, AutoName(S.now), F.create)
         IN  IF S.config.AutoBackup
             THEN IF A.run # "running" THEN A
                  ELSE IF A.ret # Nil
                      THEN [A EXCEPT !.ret = "failed to create auto-backup"]
                  ELSE RestoreAfterAutoBackup(A, backupToRestore, F.restore)
             ELSE SvcRestoreBackup(S, backupToRestore, F.restore)

(***************************************************************************)
(* package views: MainMenuHandler.                                         *)
(***************************************************************************)
IsKey(msg, keys) == msg.type = "key" /\ msg.key \in keys

HandleCreateBackup(S) == ClearTextInput(TransitionTo(S, "CreateBackupView"))

HandleRestoreBackup(S, F) ==
    ResetListSelection(RefreshBackupList(TransitionTo(S, "BackupListView"), F.list))

HandleListBackups(S, F) ==
    ResetListSelection(RefreshBackupList(TransitionTo(S, "ViewBackupsView"), F.list))

\* the delete view entered with the selection left as it was
EnterDeletingKeeping(S) == TransitionTo(S, "DeletingView")

\* the selection as the delete view is entered from the main menu
EnterDeleting(S) == ClearSelections(TransitionTo(S, "DeletingView"))

HandleDeleteBackups(S, F) ==
    ResetListSelection(RefreshBackupList(EnterDeleting(S), F.list))

HandleSettings(S) == TransitionTo(S, "SettingsView")

MainMenuUpdate(S, msg, F) ==
    IF IsKey(msg, {"1"}) THEN HandleCreateBackup(S)
    ELSE IF IsKey(msg, {"2"}) THEN HandleRestoreBackup(S, F)
    ELSE IF IsKey(msg, {"3"}) THEN HandleListBackups(S, F)
    ELSE IF IsKey(msg, {"4"}) THEN HandleDeleteBackups(S, F)
    ELSE IF IsKey(msg, {"5"}) THEN HandleSettings(S)
    ELSE S

(***************************************************************************)
(* package ui: Controller.                                                 *)
(***************************************************************************)
\* keys that insert their character into a focused text input
Printable == {"q", "y", "n", "a", "s", "d", "e", " ", "1", "2", "3", "4", "5"}

ShouldAllowQuitToMainMenu(S) ==
    S.state # "FirstRunView" /\ S.state # "MainMenuView"

\* handleGlobalMessages; ctrl+c (the only case with a command) is taken by Update
HandleGlobalMessages(S, msg) ==
    IF ShouldAllowQuitToMainMenu(S) /\ IsKey(msg, {"q"})
        THEN ClearNotification(TransitionTo(S, "MainMenuView"))
    ELSE IF msg.type = "clear" THEN ClearNotification(S)
    ELSE IF msg.type = "dbinit" THEN TransitionTo(S, "MainMenuView")
    ELSE IF msg.type = "error" THEN SetError(S, msg.err)
    ELSE S

IsTextInputView(st) ==
    st \in {"FirstRunView", "FirstRunBackupDirView", "CreateBackupView",
            "ChangeSavePathView", "ChangeBackupDirView"}

IsListView(st) == st \in {"BackupListView", "ViewBackupsView", "DeletingView"}

\* a first-run completion that saves the two paths the wrong way round
FirstRunSwapped(S, backupDirPath, F) ==
    LET C == ConfigSave([S EXCEPT !.config.SavePath = backupDirPath,
                                  !.config.BackupDir = S.tempSavePath], F.save)
    IN  IF C.ret # Nil THEN SetError(C, "failed to save configuration")
        ELSE AppInit(TransitionTo([C EXCEPT !.tempSavePath = ""], "InitializingView"))

HandleFirstRunComplete(S, backupDirPath, F) ==
    LET C == ConfigSave([S EXCEPT !.config.SavePath = S.tempSavePath,
                                  !.config.BackupDir = backupDirPath], F.save)
    IN  IF C.ret # Nil THEN SetError(C, "failed to save configuration")
        ELSE AppInit(TransitionTo([C EXCEPT !.tempSavePath = ""], "InitializingView"))

HandleTextInputSubmit(S, F) ==
    LET inputValue == Str(S.textInput)
        backupName == Str(TrimSpace(S.textInput))
        created == SvcCreateBackup(S, backupName, F.create)
        savePath == AppUpdateSavePath(S, inputValue, F.save)
        backupDir == AppUpdateBackupDir(S, inputValue, F.save)
    IN  IF TrimSpace(S.textInput) = <<>> /\ S.state # "CreateBackupView" THEN S
        ELSE IF S.state = "FirstRunView"
            THEN ClearTextInput(TransitionTo([S EXCEPT !.tempSavePath = inputValue],
                                             "FirstRunBackupDirView"))
        ELSE IF S.state = "FirstRunBackupDirView"
            THEN HandleFirstRunComplete(S, inputValue, F)
        ELSE IF S.state = "CreateBackupView"
            THEN IF created.run # "running" THEN created
                 ELSE IF created.ret # Nil THEN SetError(created, "failed to create backup")
                 ELSE TransitionTo(
                        ShowNotification(created,
                            IF backupName = ""
                            THEN "Backup created successfully with auto-generated name"
                            ELSE "Backup created successfully: " \o backupName),
                        "MainMenuView")
        ELSE IF S.state = "ChangeSavePathView"
            THEN IF savePath.ret # Nil THEN SetError(savePath, "failed to update save path")
                 ELSE TransitionTo(ShowNotification(savePath, "Save path updated: " \o inputValue),
                                   "SettingsView")
        ELSE IF S.state = "ChangeBackupDirView"
            THEN IF backupDir.ret # Nil
                 THEN SetError(backupDir, "failed to update backup directory")
                 ELSE TransitionTo(
                        ShowNotification(backupDir, "Backup directory updated: " \o inputValue),
                        "SettingsView")
        ELSE S

\* textinput.Update: a printable key appends its character
TextInputUpdate(S, msg) ==
    IF IsKey(msg, Printable) THEN [S EXCEPT !.textInput = Append(@, msg.key)] ELSE S

\* a text input whose escape goes back to the view it was entered from
EscapeToPrevious(S, msg, F) ==
    IF IsKey(msg, {"enter"}) THEN HandleTextInputSubmit(S, F)
    ELSE IF IsKey(msg, {"esc"}) THEN TransitionTo(S, S.previous)
    ELSE TextInputUpdate(S, msg)

HandleTextInputView(S, msg, F) ==
    IF IsKey(msg, {"enter"}) THEN HandleTextInputSubmit(S, F)
    ELSE IF IsKey(msg, {"esc"}) THEN TransitionTo(S, "MainMenuView")
    ELSE TextInputUpdate(S, msg)

\* what enter does in the restore list
RestoreOnEnter(S, F) ==
    LET R == AppRestoreSelectedBackupWithAutoBackup(S, F)
    IN  IF R.run # "running" THEN R
        ELSE IF R.ret # Nil THEN SetError(R, "failed to restore backup")
        ELSE TransitionTo(ShowNotification(R, "Backup restored successfully!"), "MainMenuView")

\* enter in the delete view deleting the selection at once
DeleteOnEnter(S, F) ==
    IF S.state = "BackupListView" THEN RestoreOnEnter(S, F)
    ELSE IF S.state = "DeletingView" /\ Cardinality(S.selected) > 0
        THEN TransitionTo(AppDeleteSelectedBackups(S, F.del), "MainMenuView")
    ELSE S

\* enter in the delete view opening the confirmation whatever is selected
EnterAlwaysConfirms(S, F) ==
    IF S.state = "BackupListView" THEN RestoreOnEnter(S, F)
    ELSE IF S.state = "DeletingView" THEN TransitionTo(S, "DeleteConfirmationView")
    ELSE S

HandleListSelection(S, F) ==
    IF S.state = "BackupListView" THEN RestoreOnEnter(S, F)
    ELSE IF S.state = "ViewBackupsView" THEN S
    ELSE IF S.state = "DeletingView"
        THEN IF Cardinality(S.selected) = 0 THEN S
             ELSE TransitionTo(S, "DeleteConfirmationView")
    ELSE S

\* a toggle that only ever selects
ToggleAddOnly(S) == [S EXCEPT !.selected = @ \cup {S.index}]

HandleToggleSelection(S) ==
    IF S.index \in S.selected
    THEN [S EXCEPT !.selected = @ \ {S.index}]
    ELSE [S EXCEPT !.selected = @ \cup {S.index}]

HandleSelectAll(S) == [S EXCEPT !.selected = @ \cup {i \in 0..(Len(S.items) - 1) : TRUE}]

HandleDeselectAll(S) == ClearSelections(S)

\* list.Update: the cursor keys, on a listing that fits one page
ListUpdate(S, msg) ==
    IF IsKey(msg, {"up"}) /\ S.index > 0 THEN [S EXCEPT !.index = @ - 1]
    ELSE IF IsKey(msg, {"down"}) /\ S.index < Len(S.items) - 1 THEN [S EXCEPT !.index = @ + 1]
    ELSE S

HandleListView(S, msg, F) ==
    IF IsKey(msg, {"enter"}) THEN HandleListSelection(S, F)
    ELSE IF IsKey(msg, {" "}) /\ S.state = "DeletingView" THEN HandleToggleSelection(S)
    ELSE IF IsKey(msg, {"right"}) /\ S.state = "DeletingView" THEN HandleSelectAll(S)
    ELSE IF IsKey(msg, {"left"}) /\ S.state = "DeletingView" THEN HandleDeselectAll(S)
    ELSE ListUpdate(S, msg)

HandleSettingsView(S, msg, F) ==
    LET T == AppToggleAutoBackup(S, F.save)
    IN  IF IsKey(msg, {"1"}) THEN ClearTextInput(TransitionTo(S, "ChangeSavePathView"))
        ELSE IF IsKey(msg, {"2"}) THEN ClearTextInput(TransitionTo(S, "ChangeBackupDirView"))
        ELSE IF IsKey(msg, {"3"})
            THEN IF T.ret # Nil THEN SetError(T, "failed to update auto-backup setting")
                 ELSE ShowNotification(T, "Auto-backup setting: "
                                          \o (IF T.config.AutoBackup THEN "ON" ELSE "OFF"))
        ELSE S

\* what 'y' does in the delete confirmation
ConfirmDelete(S, F) ==
    LET D == AppDeleteSelectedBackups(S, F.del)
    IN  IF D.run # "running" THEN D
        ELSE IF D.ret # Nil THEN SetError(D, "failed to delete backups")
        ELSE TransitionTo(
               ShowNotification(D, "Deleted " \o ToString(Cardinality(D.selected))
                                   \o " backup(s)"),
               "MainMenuView")

\* a confirmation that forgets the selection when it is declined
DeclineClearing(S, msg, F) ==
    IF IsKey(msg, {"y", "Y"}) THEN ConfirmDelete(S, F)
    ELSE IF IsKey(msg, {"n", "N", "q"}) THEN ClearSelections(TransitionTo(S, "DeletingView"))
    ELSE S

HandleDeleteConfirmationView(S, msg, F) ==
    IF IsKey(msg, {"y", "Y"}) THEN ConfirmDelete(S, F)
    ELSE IF IsKey(msg, {"n", "N", "q"}) THEN TransitionTo(S, "DeletingView")
    ELSE S

HandleOtherViews(S, msg, F) ==
    IF IsTextInputView(S.state) THEN HandleTextInputView(S, msg, F)
    ELSE IF IsListView(S.state) THEN HandleListView(S, msg, F)
    ELSE IF S.state = "SettingsView" THEN HandleSettingsView(S, msg, F)
    ELSE IF S.state = "DeleteConfirmationView" THEN HandleDeleteConfirmationView(S, msg, F)
    ELSE S

\* an Update in which ctrl+c is a key like any other
UpdateWithoutQuit(S, msg, F) ==
    LET G == HandleGlobalMessages(S, msg)
    IN  IF HasError(G) THEN G
        ELSE IF G.state = "MainMenuView" THEN MainMenuUpdate(G, msg, F)
        ELSE IF G.state = "InitializingView" THEN G
        ELSE HandleOtherViews(G, msg, F)

\* Controller.Update
Update(S, msg, F) ==
    LET G == HandleGlobalMessages(S, msg)
    IN  IF IsKey(msg, {"ctrl+c"})
            THEN [Log(S, Call("Quit", S.state, "none", TRUE, S.err)) EXCEPT !.run = "quit"]
        ELSE IF HasError(G) THEN G
        ELSE IF G.state = "MainMenuView" THEN MainMenuUpdate(G, msg, F)
        ELSE IF G.state = "InitializingView" THEN G
        ELSE HandleOtherViews(G, msg, F)

\* the command of Application.Init, run off the event loop
InitializeDatabase(S, fault) ==
    LET R == SvcInitializeDatabase(S, fault)
    IN  [R EXCEPT !.initPending = FALSE,
                  !.inbox = @ \cup {IF R.ret # Nil THEN ErrorMsg(R.ret)
                                    ELSE DatabaseInitializedMsg}]

(***************************************************************************)
(* The state.                                                              *)
(***************************************************************************)
VARIABLES
    fs,            \* the filesystem: path -> content of the file there
    dbs,           \* backup directory -> the backups table of its backups.db
    cfgFile,       \* config.json: the configuration last saved, or NoConfigFile
    now,           \* the clock, in ticks
    run,           \* "running", "quit" (tea.Quit), "panic" (nil handle), "hung"
    state,         \* StateManager.current
    previous,      \* StateManager.previous
    selected,      \* Application.selected: the marked list positions
    items,         \* list.Items(): the listing last fetched
    index,         \* list.Index(): the cursor
    err,           \* Application.err
    message,       \* NotificationManager.message
    textInput,     \* textInput.Value(), as characters
    tempSavePath,  \* the package-level tempSavePath
    config,        \* the Config shared by Application and BackupService
    db,            \* BackupService.db: the directory of the opened database, or Nil
    timers,        \* notification timers in flight
    initPending,   \* the initializeDatabase command is scheduled
    inbox,         \* messages of finished commands, not yet delivered
    last,          \* the event of the last step and the engine calls it made
    origin,        \* records whose file is untouched since creation, with its data
    seqRun,        \* the current run of same-name CreateBackup calls
    track,         \* whether origin and seqRun are kept (the engine specification)
    limit          \* the bounds of the session: backup files written, timers in flight

vars == <<fs, dbs, cfgFile, now, run, state, previous, selected, items, index, err,
          message, textInput, tempSavePath, config, db, timers, initPending, inbox,
          last, origin, seqRun, track, limit>>

Snap ==
    [fs |-> fs, dbs |-> dbs, cfgFile |-> cfgFile, now |-> now, run |-> run,
     state |-> state, previous |-> previous, selected |-> selected, items |-> items,
     index |-> index, err |-> err, message |-> message, textInput |-> textInput,
     tempSavePath |-> tempSavePath, config |-> config, db |-> db, timers |-> timers,
     initPending |-> initPending, inbox |-> inbox, last |-> last, origin |-> origin,
     seqRun |-> seqRun, track |-> track, limit |-> limit, ret |-> Nil]

\* the snapshot a step starts from: nothing invoked yet
Begin(ev) == [Snap EXCEPT !.last = [ev |-> ev, ops |-> <<>>]]

\* a step that called nothing leaves no record
NoLast == [ev |-> Msg("none", "", Nil), ops |-> <<>>]

WithinBounds(S) ==
    /\ S.timers <= S.limit.timers
    /\ Len(S.textInput) <= MaxText
    /\ S.now <= S.limit.writes

\* when the process ends (tea.Quit, a panic) or hangs, its memory is gone: only the
\* files, the databases and config.json remain
Volatile(S) ==
    [S EXCEPT !.state = "", !.previous = "", !.selected = {}, !.items = <<>>,
              !.index = 0, !.err = Nil, !.message = "", !.textInput = <<>>,
              !.tempSavePath = "", !.config = DefaultConfig, !.db = Nil, !.timers = 0,
              !.initPending = FALSE, !.inbox = {}]

Commit(T) ==
    LET S == IF T.run = "running" THEN T ELSE Volatile(T) IN
    /\ WithinBounds(S)
    /\ fs' = S.fs /\ dbs' = S.dbs /\ cfgFile' = S.cfgFile /\ now' = S.now
    /\ run' = S.run /\ state' = S.state /\ previous' = S.previous
    /\ selected' = S.selected /\ items' = S.items /\ index' = S.index
    /\ err' = S.err /\ message' = S.message /\ textInput' = S.textInput
    /\ tempSavePath' = S.tempSavePath /\ config' = S.config /\ db' = S.db
    /\ timers' = S.timers /\ initPending' = S.initPending /\ inbox' = S.inbox
    /\ last' = (IF S.last.ops = <<>> THEN NoLast ELSE S.last)
    /\ origin' = S.origin /\ seqRun' = S.seqRun /\ track' = track /\ limit' = limit

(***************************************************************************)
(* Initial states: main.go, NewController, NewApplication, config.Load.    *)
(***************************************************************************)
EmptyFs == [p \in {} |-> 1]

\* where the game writes its save file
GamePaths == {"s"}

\* the configurations config.Load finds on disk
LoadedConfigs ==
    {[SavePath |-> "s", BackupDir |-> "d", AutoBackup |-> a] : a \in BOOLEAN}

InitFiles == {[p \in {"s"} |-> 1]}

InitCommon ==
    /\ fs \in InitFiles
    /\ now = 0
    /\ run = "running"
    /\ selected = {}
    /\ items = <<>>
    /\ index = 0
    /\ err = Nil
    /\ message = ""
    /\ textInput = <<>>
    /\ tempSavePath = ""
    /\ timers = 0
    /\ inbox = {}
    /\ last = NoLast
    /\ origin = {}
    /\ seqRun = NoRun

\* NewApplication: first run starts in FirstRunView, otherwise the database is opened
InitFirstRun ==
    /\ InitCommon
    /\ dbs = [d \in {} |-> EmptyTable]
    /\ db = Nil
    /\ track = FALSE
    /\ limit = [writes |-> MaxInserts, timers |-> MaxTimers]
    /\ cfgFile = NoConfigFile
    /\ config = DefaultConfig
    /\ state = "FirstRunView"
    /\ previous = "FirstRunView"
    /\ initPending = FALSE

\* NewApplication with a configuration on disk: Init() issues initializeDatabase
Init ==
    /\ InitCommon
    /\ dbs = [d \in {} |-> EmptyTable]
    /\ db = Nil
    /\ track = FALSE
    /\ limit = [writes |-> MaxInserts, timers |-> MaxTimers]
    /\ config \in LoadedConfigs
    /\ cfgFile = config
    /\ state = "InitializingView"
    /\ previous = "InitializingView"
    /\ initPending = TRUE

(***************************************************************************)
(* The event loop: one message at a time through Controller.Update.        *)
(***************************************************************************)
Keys == {"ctrl+c", "q", "enter", "esc", " ", "right", "left", "up", "down",
         "y", "n", "1", "2", "3", "4", "a"}

\* the characters typed into text inputs
TypedChars == {"a", "q"}

CreateFaultChoices == {[NoFault EXCEPT !.create = f] : f \in {"none", "read", "insert"}}
RestoreFaultChoices == {[NoFault EXCEPT !.restore = f] : f \in {"none", "read"}}
SaveFaultChoices == {[NoFault EXCEPT !.save = f] : f \in BOOLEAN}
ListFaultChoices == {[NoFault EXCEPT !.list = f] : f \in BOOLEAN}
DeleteFaultChoices(n) ==
    {[NoFault EXCEPT !.del = [rm |-> rm, dbAt |-> at]] :
        rm \in {{}, {1}}, at \in {-1, n}}

\* the I/O outcomes that can matter to key k in the current state
FaultChoices(k) ==
    IF k = "enter" /\ state = "CreateBackupView" THEN CreateFaultChoices
    ELSE IF k = "enter" /\ state = "BackupListView"
        THEN CreateFaultChoices \cup RestoreFaultChoices
    ELSE IF k = "enter" /\ state \in {"FirstRunBackupDirView", "ChangeSavePathView",
                                      "ChangeBackupDirView"}
        THEN SaveFaultChoices
    ELSE IF k = "3" /\ state = "SettingsView" THEN SaveFaultChoices
    ELSE IF k \in {"2", "3", "4"} /\ state = "MainMenuView" THEN ListFaultChoices
    ELSE IF k \in {"y", "Y"} /\ state = "DeleteConfirmationView"
        THEN DeleteFaultChoices(Len(GetSelectedBackups(items, selected)))
    ELSE {NoFault}

\* a key in K is pressed; a finished command's message is delivered first
KeyPressIn(K, T) ==
    /\ run = "running"
    /\ inbox = {}
    /\ \E k \in K :
          /\ IsTextInputView(state) /\ k \in Printable => k \in T
          /\ \E F \in FaultChoices(k) : Commit(Update(Begin(Key(k)), Key(k), F))

KeyPress == KeyPressIn(Keys, TypedChars)

\* a notification timer fires
TimerFires ==
    /\ run = "running"
    /\ inbox = {}
    /\ timers > 0
    /\ Commit(Update([Begin(ClearNotificationMsg) EXCEPT !.timers = @ - 1],
                     ClearNotificationMsg, NoFault))

\* the initializeDatabase command runs
RunInitCmd ==
    /\ run = "running"
    /\ initPending
    /\ \E fault \in BOOLEAN :
          Commit(InitializeDatabase(Begin(Msg("cmd", "initializeDatabase", Nil)), fault))

\* the message of a finished command reaches Update
Deliver ==
    /\ run = "running"
    /\ \E msg \in inbox :
          Commit(Update([Begin(msg) EXCEPT !.inbox = @ \ {msg}], msg, NoFault))

(***************************************************************************)
(* The environment.                                                        *)
(***************************************************************************)
\* the game writes its save file: data that no file holds yet
GameSave ==
    /\ run = "running"
    /\ err = Nil
    /\ inbox = {}
    /\ \E p \in GamePaths, c \in Contents :
          /\ \A q \in DOMAIN fs : fs[q] # c
          /\ Commit(ChangeFs(Begin(Msg("env", "GameSave", Nil)), WriteFile(fs, p, c)))

\* a file, a backup or the game's save file, is removed behind the program's back
ExternalRemove ==
    \E p \in DOMAIN fs :
        Commit(ChangeFs(Begin(Msg("env", "ExternalRemove", Nil)), Remove(fs, p)))

Next == KeyPress \/ TimerFires \/ RunInitCmd \/ Deliver \/ GameSave

Spec == Init /\ [][Next]_vars

(***************************************************************************)
(* The engine specification: the catalog operations called directly, with  *)
(* every I/O outcome, on an opened database.                               *)
(***************************************************************************)
EngineConfig == [SavePath |-> "s", BackupDir |-> "d", AutoBackup |-> TRUE]

InitEngine ==
    /\ InitCommon
    /\ dbs = [d \in {"d"} |-> EmptyTable]
    /\ db = "d"
    /\ track = TRUE
    /\ limit = [writes |-> MaxInserts, timers |-> MaxTimers]
    /\ config = EngineConfig
    /\ cfgFile = EngineConfig
    /\ state = "MainMenuView"
    /\ previous = "InitializingView"
    /\ initPending = FALSE

\* the names given to CreateBackup
ApiNames == {"", "a"}

Api(op) == Begin(Msg("api", op, Nil))

\* the sequences of at most n distinct records of rows
RECURSIVE Arrangements(_, _)
Arrangements(rows, n) ==
    IF n = 0 THEN {<<>>}
    ELSE {<<>>} \cup UNION {{<<r>> \o rest : rest \in Arrangements(rows \ {r}, n - 1)} : r \in rows}

ApiCreateBackup ==
    /\ run = "running"
    /\ \E name \in ApiNames, fault \in CreateFaults :
          Commit(SvcCreateBackup(Api("CreateBackup"), name, fault))

ApiRestoreBackup ==
    /\ run = "running"
    /\ \E b \in Rows(Snap), fault \in RestoreFaults :
          Commit(SvcRestoreBackup(Api("RestoreBackup"), b, fault))

ApiDeleteBackups ==
    /\ run = "running"
    /\ \E backups \in Arrangements(Rows(Snap), MaxDelete) :
          \E rm \in SUBSET (1..Len(backups)), at \in -1..(Len(backups) + 1) :
              Commit(SvcDeleteBackups(Api("DeleteBackups"), backups, [rm |-> rm, dbAt |-> at]))

NextEngine ==
    ApiCreateBackup \/ ApiRestoreBackup \/ ApiDeleteBackups \/ GameSave \/ ExternalRemove

SpecEngine == InitEngine /\ [][NextEngine]_vars

(***************************************************************************)
(* The specification of repeated creation: CreateBackup called again and   *)
(* again while the game keeps writing, with no deletion.                   *)
(***************************************************************************)
InitCreate ==
    /\ InitCommon
    /\ dbs = [d \in {"d"} |-> EmptyTable]
    /\ db = "d"
    /\ track = TRUE
    /\ limit = [writes |-> MaxRun, timers |-> MaxTimers]
    /\ config = EngineConfig
    /\ cfgFile = EngineConfig
    /\ state = "MainMenuView"
    /\ previous = "InitializingView"
    /\ initPending = FALSE

NextCreate == ApiCreateBackup \/ GameSave

SpecCreate == InitCreate /\ [][NextCreate]_vars

(***************************************************************************)
(* The specification without failures: the catalog operations in any order *)
(* while the game keeps writing, with no I/O failure and nothing touching  *)
(* the backup files from outside.  Its behaviours are the behaviours of    *)
(* the engine up to the first failure or external modification.            *)
(***************************************************************************)
OkCreateBackup ==
    /\ run = "running"
    /\ \E name \in ApiNames : Commit(SvcCreateBackup(Api("CreateBackup"), name, "none"))

OkRestoreBackup ==
    /\ run = "running"
    /\ \E b \in Rows(Snap) : Commit(SvcRestoreBackup(Api("RestoreBackup"), b, "none"))

OkDeleteBackups ==
    /\ run = "running"
    /\ \E backups \in Arrangements(Rows(Snap), MaxDelete) :
          Commit(SvcDeleteBackups(Api("DeleteBackups"), backups, NoDeleteFault))

NextFaultless == OkCreateBackup \/ OkRestoreBackup \/ OkDeleteBackups \/ GameSave

SpecFaultless == InitCreate /\ [][NextFaultless]_vars

(***************************************************************************)
(* The specification of first run and settings: the session starts without *)
(* config.json, the user types the paths, and later changes them in the    *)
(* settings; no I/O fails except opening the database.                     *)
(***************************************************************************)
SetupKeys == {"ctrl+c", "q", "enter", "esc", "1", "2", "3", "5", " ", "s", "d", "e"}

\* the characters typed into the text input of a view: the save path, a backup
\* directory (at first run also the path of the save file, where no directory can
\* be made), a backup name; a blank in each of them
SetupTyped(st) ==
    IF st \in {"FirstRunView", "ChangeSavePathView"} THEN {"s", " "}
    ELSE IF st = "FirstRunBackupDirView" THEN {"d", "e", "s", " "}
    ELSE IF st = "ChangeBackupDirView" THEN {"d", "e", " "}
    ELSE {"d", " "}

SetupKeyPress ==
    /\ run = "running"
    /\ inbox = {}
    /\ \E k \in SetupKeys :
          /\ IsTextInputView(state) /\ k \in Printable => k \in SetupTyped(state)
          /\ Commit(Update(Begin(Key(k)), Key(k), NoFault))

NextSetup == SetupKeyPress \/ TimerFires \/ RunInitCmd \/ Deliver

SpecSetup == InitFirstRun /\ [][NextSetup]_vars


(***************************************************************************)
(* The specification of notifications: a session with a saved              *)
(* configuration in which a notification can be shown while the timer of   *)
(* an earlier one is still running.  All timers run for the same           *)
(* NotificationDuration, so they fire in the order they were started.      *)
(***************************************************************************)
InitNotify ==
    /\ InitCommon
    /\ dbs = [d \in {} |-> EmptyTable]
    /\ db = Nil
    /\ track = FALSE
    /\ limit = [writes |-> MaxInserts, timers |-> MaxPending]
    /\ config \in LoadedConfigs
    /\ cfgFile = config
    /\ state = "InitializingView"
    /\ previous = "InitializingView"
    /\ initPending = TRUE

NotifyKeys == {"ctrl+c", "q", "enter", "esc", "1", "3", "5", "a"}

NotifyKeyPress == KeyPressIn(NotifyKeys, {"a"})

NextNotify == NotifyKeyPress \/ TimerFires \/ RunInitCmd \/ Deliver

SpecNotify == InitNotify /\ [][NextNotify]_vars

\* tea.Tick delivers every timer it was asked for, and a finished command's message
\* reaches Update
SpecNotifyLive ==
    InitNotify /\ [][NextNotify]_vars /\ SF_vars(TimerFires) /\ WF_vars(Deliver)

(***************************************************************************)
(* Properties of the catalog engine.                                       *)
(***************************************************************************)
\* the engine calls of the last step
LastOps == {last.ops[i] : i \in 1..Len(last.ops)}

\* the filesystem after the loop of DeleteBackups tried to remove b as its i-th record
AfterRemove(f, b, i, rm) == IF RemoveSucceeds(f, b, i, rm) THEN Remove(f, b.Path) ELSE f

\* C1: when DeleteBackups(<<r1, r2>>) reaches the database removal of r2 and that
\* removal fails, the call returns an error and the catalog is what it was before
\* the call, r1 and r2 included, while r1's file, once removed, stays removed.
AtomicMultiDelete ==
    run = "running" =>
        \A r1 \in Rows(Snap), r2 \in Rows(Snap), rm \in SUBSET {1} :
            LET T == SvcDeleteBackups(Api("DeleteBackups"), <<r1, r2>>, [rm |-> rm, dbAt |-> 2])
            IN  r1 # r2 /\ RemoveSucceeds(AfterRemove(fs, r1, 1, rm), r2, 2, rm)
                => /\ T.ret # Nil
                   /\ {r1, r2} \subseteq T.dbs[db].rows
                   /\ T.dbs = dbs
                   /\ RemoveSucceeds(fs, r1, 1, rm) => ~Exists(T.fs, r1.Path)

\* a two-record delete failed at the second record's database removal: both records
\* are in the catalog, the first one's file is gone
AtomicMultiDeleteHappened ==
    \E c \in LastOps :
        /\ c.op = "DeleteBackups" /\ ~c.ok
        /\ Len(c.arg) = 2
        /\ c.fault = [rm |-> {}, dbAt |-> 2]
        /\ c.arg[1] # c.arg[2]
        /\ {c.arg[1], c.arg[2]} \subseteq Rows(Snap)
        /\ ~Exists(fs, c.arg[1].Path)
        /\ ~Exists(fs, c.arg[2].Path)

\* C2: the paths written by a run of CreateBackup calls with one name are pairwise
\* distinct, and no CreateBackup call, whatever its outcome, removes or rewrites a
\* file that existed before it.
UniqueBackupPaths ==
    /\ \A i, j \in 1..Len(seqRun.paths) : i # j => seqRun.paths[i] # seqRun.paths[j]
    /\ run = "running" =>
          \A name \in ApiNames, fault \in CreateFaults :
              LET T == SvcCreateBackup(Api("CreateBackup"), name, fault)
              IN  \A p \in DOMAIN fs : Exists(T.fs, p) /\ T.fs[p] = fs[p]

\* three calls with the name "a" wrote three files, with the source changed meanwhile
UniqueBackupPathsHappened ==
    /\ seqRun.name = "a"
    /\ Len(seqRun.paths) = 3
    /\ \E p, q \in DOMAIN fs \ GamePaths : fs[p] # fs[q]

\* the name of the i-th file a run with one name writes into a clean directory
NthName(name, i) == IF i = 1 THEN name ELSE name \o "_" \o ToString(i - 1)

\* C3: in a run of CreateBackup calls with one non-empty name that began
\* with no <name>.sav and no <name>_k.sav in the directory, the first file written is
\* <name>.sav and the N-th collision writes <name>_<N>.sav; a successful call adds
\* one record whose name is the written file's name without ".sav".
CollisionNumbering ==
    /\ seqRun.clean =>
          \A i \in 1..Len(seqRun.paths) :
              seqRun.paths[i] = BackupPath(seqRun.dir, NthName(seqRun.name, i))
    /\ run = "running" =>
          \A name \in ApiNames :
              LET T == SvcCreateBackup(Api("CreateBackup"), name, "none")
                  new == T.dbs[db].rows \ Rows(Snap)
              IN  T.ret = Nil =>
                    /\ Cardinality(new) = 1
                    /\ \A r \in new : /\ r.Path = BackupPath(config.BackupDir, r.Name)
                                      /\ Touched(fs, T.fs) = {r.Path}

\* C3 as the specification words it: the N-th collision writes <name>_<N-1>.sav
CollisionNumberingAsStated ==
    seqRun.clean =>
        \A n \in 1..(Len(seqRun.paths) - 1) :
            seqRun.paths[n + 1] =
                BackupPath(seqRun.dir, seqRun.name \o "_" \o ToString(n - 1))

\* a clean run of three successful calls: two collisions
CollisionNumberingHappened ==
    /\ seqRun.clean
    /\ Len(seqRun.paths) = 3
    /\ \A i \in 1..3 : \E r \in Rows(Snap) : r.Path = seqRun.paths[i]
    /\ \E c \in LastOps : c.op = "CreateBackup" /\ c.ok /\ c.out.Path = seqRun.paths[3]

\* C4: a successful RestoreBackup(b) of a backup made while the source file held X,
\* whose file nothing has touched since, leaves the source file holding X.
RoundTrip ==
    run = "running" =>
        \A o \in origin, fault \in RestoreFaults :
            LET T == SvcRestoreBackup(Api("RestoreBackup"), o.rec, fault)
            IN  T.ret = Nil => T.fs[config.SavePath] = o.data

\* a restore of b succeeded after the source had changed: a later backup holds
\* other content than b
RoundTripHappened ==
    \E c \in LastOps, o \in origin, later \in origin :
        /\ c.op = "RestoreBackup" /\ c.ok
        /\ o.rec = c.arg
        /\ later.rec.CreatedAt > o.rec.CreatedAt
        /\ later.data # o.data
        /\ fs[config.SavePath] = o.data

\* C10: DeleteBackups(<<>>) changes no file and no catalog, whatever the outcome of
\* its transaction, and returns success when Begin and Commit succeed.
EmptyDelete ==
    run = "running" =>
        \A at \in {-1, 0, 1} :
            LET T == SvcDeleteBackups(Api("DeleteBackups"), <<>>, [rm |-> {}, dbAt |-> at])
            IN  /\ T.fs = fs
                /\ T.dbs = dbs
                /\ at = -1 => T.ret = Nil /\ T.run = "running"

\* an empty delete returned success with records in the catalog
EmptyDeleteHappened ==
    /\ Rows(Snap) # {}
    /\ \E c \in LastOps : c.op = "DeleteBackups" /\ c.arg = <<>> /\ c.ok

\* C11: after DeleteBackups(records) returned success, no record of `records` is in
\* the catalog, the records whose file could not be removed included.
RowsRemovedDespiteFileFailure ==
    run = "running" =>
        \A backups \in Arrangements(Rows(Snap), MaxDelete), rm \in SUBSET (1..MaxDelete) :
            LET T == SvcDeleteBackups(Api("DeleteBackups"), backups, [rm |-> rm, dbAt |-> -1])
            IN  T.ret = Nil => \A i \in 1..Len(backups) : backups[i] \notin T.dbs[db].rows

\* the filesystem after the loop of DeleteBackups handled the first n records
RECURSIVE FsAfter(_, _, _, _)
FsAfter(f, backups, n, rm) ==
    IF n = 0 THEN f ELSE AfterRemove(FsAfter(f, backups, n - 1, rm), backups[n], n, rm)

\* C12: when the file of one record cannot be removed and no database removal fails,
\* DeleteBackups returns success, and every later record whose own file can be removed
\* loses both its file and its catalog row.
FileRemovalFailureNotFatal ==
    run = "running" =>
        \A backups \in Arrangements(Rows(Snap), MaxDelete), rm \in SUBSET (1..MaxDelete) :
            LET T == SvcDeleteBackups(Api("DeleteBackups"), backups, [rm |-> rm, dbAt |-> -1])
                fails(i) == ~RemoveSucceeds(FsAfter(fs, backups, i - 1, rm), backups[i], i, rm)
            IN  (\E i \in 1..Len(backups) : fails(i)) =>
                    /\ T.ret = Nil
                    /\ T.run = "running"
                    /\ \A j \in 1..Len(backups) :
                          (\E i \in 1..(j - 1) : fails(i)) /\ ~fails(j) =>
                              /\ ~Exists(T.fs, backups[j].Path)
                              /\ backups[j] \notin T.dbs[db].rows

\* a delete of two records returned success although the first record's file, which
\* is still there, could not be removed: the second record and its file are gone
FileRemovalFailureHappened ==
    \E c \in LastOps :
        /\ c.op = "DeleteBackups" /\ c.ok
        /\ Len(c.arg) = 2
        /\ c.fault.rm = {1}
        /\ Exists(fs, c.arg[1].Path)
        /\ c.arg[2] \notin Rows(Snap)
        /\ c.arg[2].Path # c.arg[1].Path
        /\ ~Exists(fs, c.arg[2].Path)


(***************************************************************************)
(* Properties of the interaction state machine.                            *)
(***************************************************************************)
\* every key the handlers name
AllKeys == Keys \cup {"Y", "N", "5"}

\* the messages Update can receive
AllMsgs ==
    {Key(k) : k \in AllKeys}
    \cup {ClearNotificationMsg, DatabaseInitializedMsg, ErrorMsg("query error")}

\* the outcome of Update(msg) in the current state under I/O outcome F
After(msg, F) == Update(Begin(msg), msg, F)

Outcomes(msg) == IF msg.type = "key" THEN FaultChoices(msg.key) ELSE {NoFault}

\* the engine calls a step made
OpsOf(T) == {T.last.ops[i] : i \in 1..Len(T.last.ops)}

\* the restore list shows a record under the cursor and a key can be handled
RestoreReady ==
    /\ run = "running" /\ inbox = {} /\ err = Nil
    /\ state = "BackupListView"
    /\ index < Len(items)

\* the names an automatic backup made now can get
AutoNames == {AutoName(now)} \cup {Suffixed(AutoName(now), k) : k \in 1..(MaxInserts + 1)}

\* C5: with auto-backup on, enter in the restore list on backup B (file content V0)
\* while the source holds V2 and no I/O fails: CreateBackup runs and succeeds before
\* RestoreBackup runs; afterwards the catalog has exactly one new record, auto-named,
\* whose file holds V2, no record is lost, and the source holds V0.
AutoBackupBeforeRestore ==
    RestoreReady /\ config.AutoBackup /\ Exists(fs, items[index + 1].Path) =>
        LET B == items[index + 1]
            T == After(Key("enter"), NoFault)
            new == T.dbs[db].rows \ Rows(Snap)
        IN  /\ Len(T.last.ops) = 2
            /\ T.last.ops[1].op = "CreateBackup" /\ T.last.ops[1].ok
            /\ T.last.ops[2].op = "RestoreBackup" /\ T.last.ops[2].ok
            /\ T.last.ops[2].arg = B
            /\ Cardinality(new) = 1
            /\ \A n \in new : /\ n.Name \in AutoNames
                              /\ n.Path = BackupPath(config.BackupDir, n.Name)
                              /\ T.fs[n.Path] = fs[config.SavePath]
            /\ Rows(Snap) \subseteq T.dbs[db].rows
            /\ T.fs[config.SavePath] = fs[B.Path]

\* a restore with auto-backup went through, and the automatic backup holds other
\* content than the restored source
AutoBackupBeforeRestoreHappened ==
    /\ last.ev = Key("enter")
    /\ Len(last.ops) = 2
    /\ last.ops[1].op = "CreateBackup" /\ last.ops[1].ok
    /\ last.ops[2].op = "RestoreBackup" /\ last.ops[2].ok
    /\ fs[last.ops[1].out.Path] # fs[config.SavePath]
    /\ fs[last.ops[2].arg.Path] = fs[config.SavePath]

\* C6: with auto-backup on, when the automatic CreateBackup returns an error,
\* RestoreBackup is not invoked, the source file is unchanged and the session error
\* is set.
AutoBackupFailureAborts ==
    RestoreReady /\ config.AutoBackup =>
        \A f \in {"read", "write", "insert"} :
            LET T == After(Key("enter"), [NoFault EXCEPT !.create = f])
            IN  /\ \A c \in OpsOf(T) : c.op # "RestoreBackup"
                /\ \E c \in OpsOf(T) : c.op = "CreateBackup" /\ ~c.ok
                /\ T.fs[config.SavePath] = fs[config.SavePath]
                /\ HasError(T)

\* the automatic backup failed on enter in the restore list
AutoBackupFailureHappened ==
    /\ last.ev = Key("enter")
    /\ state = "BackupListView"
    /\ config.AutoBackup
    /\ Len(last.ops) = 1
    /\ last.ops[1].op = "CreateBackup" /\ ~last.ops[1].ok
    /\ err = "failed to restore backup"

\* C7: enter on a record in the restore list only moves to RestoreConfirmationView,
\* touching neither files nor catalog, and RestoreBackup is invoked only by a confirm
\* key received in RestoreConfirmationView.
RestoreGatedByConfirmation ==
    /\ RestoreReady =>
          \A F \in FaultChoices("enter") :
              LET T == After(Key("enter"), F)
              IN  /\ T.state = "RestoreConfirmationView"
                  /\ T.fs = fs
                  /\ T.dbs = dbs
    /\ run = "running" =>
          \A msg \in AllMsgs : \A F \in Outcomes(msg) :
              (\E c \in OpsOf(After(msg, F)) : c.op = "RestoreBackup")
              => state = "RestoreConfirmationView" /\ IsKey(msg, {"y", "Y"})

\* C8: DeleteBackups is invoked only by 'y' received in DeleteConfirmationView, and
\* DeleteConfirmationView is entered only from DeletingView, by enter, with at least
\* one position selected.
DeleteGatedByConfirmation ==
    run = "running" =>
        /\ \A msg \in AllMsgs : \A F \in Outcomes(msg) :
              LET T == After(msg, F)
              IN  /\ (\E c \in OpsOf(T) : c.op = "DeleteBackups")
                     => state = "DeleteConfirmationView" /\ IsKey(msg, {"y", "Y"})
                  /\ T.state = "DeleteConfirmationView" /\ state # "DeleteConfirmationView"
                     => /\ state = "DeletingView"
                        /\ IsKey(msg, {"enter"})
                        /\ selected # {}
        /\ \A fault \in BOOLEAN :
              LET T == InitializeDatabase(Begin(Msg("cmd", "initializeDatabase", Nil)), fault)
              IN  OpsOf(T) = {} /\ T.state = state

\* a confirmed delete went through
DeleteGatedByConfirmationHappened ==
    /\ last.ev = Key("y")
    /\ \E c \in LastOps : c.op = "DeleteBackups" /\ c.ok
    /\ previous = "DeleteConfirmationView"
    /\ state = "MainMenuView"

\* C9: DeletingView entered from anywhere but the delete confirmation starts with an
\* empty selection, whatever the session did before; declining the confirmation
\* returns to DeletingView with the selection as it was.
SelectionClearedFromMenu ==
    run = "running" =>
        \A msg \in AllMsgs : \A F \in Outcomes(msg) :
            LET T == After(msg, F)
            IN  T.state = "DeletingView" /\ state # "DeletingView" =>
                    IF state = "DeleteConfirmationView"
                    THEN T.selected = selected
                    ELSE state = "MainMenuView" /\ T.selected = {}

\* C9 as the specification words it: every entry to DeletingView starts with an
\* empty selection
SelectionClearedOnEveryEntry ==
    run = "running" =>
        \A msg \in AllMsgs : \A F \in Outcomes(msg) :
            LET T == After(msg, F)
            IN  T.state = "DeletingView" /\ state # "DeletingView" => T.selected = {}

\* the delete view was entered from the main menu right after a deletion, whose
\* notification still shows, and nothing is selected
SelectionClearedHappened ==
    /\ state = "DeletingView"
    /\ previous = "MainMenuView"
    /\ message = "Deleted 1 backup(s)"
    /\ selected = {}
    /\ items # <<>>

\* C13: once an error is held, every message other than ctrl+c (keys such as 'q', the
\* notification timer, database-initialized, a further error) leaves the state, the
\* previous state, the selection, the configuration, the catalog and the held error
\* as they were.
FatalErrorFreeze ==
    run = "running" /\ err # Nil =>
        \A msg \in AllMsgs \ {Key("ctrl+c")} : \A F \in Outcomes(msg) :
            LET T == After(msg, F)
            IN  /\ T.err = err
                /\ T.state = state
                /\ T.previous = previous
                /\ T.selected = selected
                /\ T.config = config
                /\ T.dbs = dbs

\* the I/O outcomes a handler can meet
AllOutcomes ==
    CreateFaultChoices \cup RestoreFaultChoices \cup SaveFaultChoices \cup ListFaultChoices

\* C14: in every state, text-input states and states with an error held included,
\* ctrl+c yields the quit command and changes neither the catalog, nor the
\* configuration (in memory and on disk), nor any file.
QuitFromAnyState ==
    run = "running" =>
        \A F \in AllOutcomes :
            LET T == After(Key("ctrl+c"), F)
            IN  /\ T.run = "quit"
                /\ T.dbs = dbs
                /\ T.fs = fs
                /\ T.config = config
                /\ T.cfgFile = cfgFile

\* ctrl+c ended the session in a text-input view while an error was held
QuitFromAnyStateHappened ==
    /\ run = "quit"
    /\ \E c \in LastOps : c.op = "Quit" /\ IsTextInputView(c.arg) /\ c.out # Nil

\* C15: after any sequence of user operations (create, restore, changing the save
\* path or the backup directory in the settings) no two records of a catalog have
\* the same name.
UniqueCatalogNames ==
    \A d \in DOMAIN dbs :
        \A r1, r2 \in dbs[d].rows : r1 # r2 => r1.Name # r2.Name

\* C16: in every reachable catalog state, after a rolled-back multi-delete or an
\* out-of-band removal of a backup file followed by a CreateBackup that reuses the
\* name included, no two records have the same path.
UniqueCatalogPaths ==
    \A r1, r2 \in Rows(Snap) : r1 # r2 => r1.Path # r2.Path

\* C17: while no operation has failed and nothing has touched the backup files from
\* outside, every record of the catalog has its file on disk, after any CreateBackup,
\* RestoreBackup and DeleteBackups in any order.
RecordsHaveFiles ==
    \A d \in DOMAIN dbs : \A r \in dbs[d].rows : Exists(fs, r.Path)

\* a delete left a record behind whose backup was made while a deleted one existed:
\* the deleted record's file is gone, the remaining record's file is there
RecordsHaveFilesHappened ==
    \E c \in LastOps, r \in Rows(Snap) :
        /\ c.op = "DeleteBackups" /\ c.ok
        /\ Len(c.arg) = 1
        /\ c.arg[1] \notin Rows(Snap)
        /\ ~Exists(fs, c.arg[1].Path)
        /\ r.CreatedAt > c.arg[1].CreatedAt
        /\ Exists(fs, r.Path)

\* the outcome T of a call made now created exactly one record named
\* Backup_<now, formatted> and one file <backup directory>/Backup_<now>.sav holding
\* the source file's content, and touched nothing else
AutoMade(T) ==
    LET stamp == "Backup_2024-01-01_10-00-" \o TwoDigits(now \div TicksPerSecond)
        path == config.BackupDir \o "/" \o stamp \o ".sav"
        new == T.dbs[db].rows \ Rows(Snap)
    IN  /\ T.ret = Nil /\ T.run = "running"
        /\ Cardinality(new) = 1
        /\ \A r \in new : r.Name = stamp /\ r.Path = path
        /\ Rows(Snap) \subseteq T.dbs[db].rows
        /\ Touched(fs, T.fs) = {path}
        /\ T.fs[path] = fs[config.SavePath]

\* C18: with the source file present and no file Backup_<T>.sav in the backup
\* directory, CreateBackup("") at time T, and enter in the create view on an empty or
\* blank name, create exactly one record named Backup_<T> and one file
\* <backup directory>/Backup_<T>.sav with the source file's content.
AutoGeneratedName ==
    /\ run = "running" /\ db # Nil
    /\ Exists(fs, config.SavePath)
    /\ ~Exists(fs, BackupPath(config.BackupDir, AutoName(now)))
    => /\ AutoMade(SvcCreateBackup(Api("CreateBackup"), "", "none"))
       /\ state = "CreateBackupView" /\ err = Nil /\ TrimSpace(textInput) = <<>>
          => LET T == After(Key("enter"), NoFault)
             IN  /\ AutoMade(T)
                 /\ Len(T.last.ops) = 1
                 /\ T.last.ops[1].op = "CreateBackup"
                 /\ T.err = Nil

\* enter on a blank name made a backup named after the time of the call
AutoGeneratedNameHappened ==
    /\ last.ev = Key("enter")
    /\ textInput = <<" ">>
    /\ message = "Backup created successfully with auto-generated name"
    /\ \E c \in LastOps, r \in Rows(Snap) :
          /\ c.op = "CreateBackup" /\ c.ok
          /\ r.Name = AutoName(r.CreatedAt)
          /\ r.Path = c.out.Path
          /\ fs[r.Path] = fs[config.SavePath]

\* C19: when the configured source file does not exist, CreateBackup returns an
\* error, writes no file and inserts no record, whatever name it is given.
SourceMustExist ==
    run = "running" /\ ~Exists(fs, config.SavePath) =>
        \A name \in ApiNames, fault \in CreateFaults :
            LET T == SvcCreateBackup(Api("CreateBackup"), name, fault)
            IN  /\ T.ret # Nil
                /\ T.run = "running"
                /\ T.fs = fs
                /\ T.dbs = dbs

\* CreateBackup failed for want of the source file, with a backup in the catalog
\* and its file on disk
SourceMustExistHappened ==
    /\ ~Exists(fs, config.SavePath)
    /\ \E r \in Rows(Snap) : Exists(fs, r.Path)
    /\ \E c \in LastOps : c.op = "CreateBackup" /\ ~c.ok /\ c.fault = "none"

\* C20: when the file of the record being restored is missing or cannot be read,
\* RestoreBackup returns an error and leaves the source file, every other file and
\* the catalog exactly as they were.
RestoreOfMissingBackup ==
    run = "running" =>
        \A b \in Rows(Snap), fault \in RestoreFaults :
            LET T == SvcRestoreBackup(Api("RestoreBackup"), b, fault)
            IN  ~Exists(fs, b.Path) \/ fault = "read" =>
                    /\ T.ret # Nil
                    /\ T.run = "running"
                    /\ T.fs = fs
                    /\ T.dbs = dbs

\* the restore of a record whose file is gone failed, and the source file is there
RestoreOfMissingBackupHappened ==
    /\ Exists(fs, config.SavePath)
    /\ \E c \in LastOps :
          /\ c.op = "RestoreBackup" /\ ~c.ok /\ c.fault = "none"
          /\ c.arg \in Rows(Snap)
          /\ ~Exists(fs, c.arg.Path)

\* C21: RestoreBackup writes at most the source file and changes no catalog record
\* and no backup file, whatever its outcome; with auto-backup off, enter in the
\* restore list invokes nothing but RestoreBackup and leaves the catalog and every
\* backup file unchanged.
RestoreFrame ==
    run = "running" =>
        /\ \A b \in Rows(Snap) \cup {items[i] : i \in 1..Len(items)}, fault \in RestoreFaults :
              LET T == SvcRestoreBackup(Api("RestoreBackup"), b, fault)
              IN  /\ T.dbs = dbs
                  /\ Touched(fs, T.fs) \subseteq {config.SavePath}
        /\ RestoreReady /\ ~config.AutoBackup =>
              \A F \in CreateFaultChoices \cup RestoreFaultChoices :
                  LET T == After(Key("enter"), F)
                  IN  /\ T.dbs = dbs
                      /\ Touched(fs, T.fs) \subseteq {config.SavePath}
                      /\ \A c \in OpsOf(T) : c.op = "RestoreBackup"

\* with auto-backup off a restore went through: the source holds the restored
\* backup's content, and a backup with other content is still in the catalog
RestoreFrameHappened ==
    /\ last.ev = Key("enter")
    /\ ~config.AutoBackup
    /\ Len(last.ops) = 1
    /\ last.ops[1].op = "RestoreBackup" /\ last.ops[1].ok
    /\ fs[config.SavePath] = fs[last.ops[1].arg.Path]
    /\ \E r \in Rows(Snap) : Exists(fs, r.Path) /\ fs[r.Path] # fs[config.SavePath]

\* C22: in FirstRunBackupDirView, submitting a directory that fails the writability
\* check keeps the state, discards the value, saves no configuration and does not
\* start opening the database.
FirstRunWritabilityGate ==
    /\ run = "running" /\ err = Nil
    /\ state = "FirstRunBackupDirView"
    /\ TrimSpace(textInput) # <<>>
    /\ ~IsWritable(fs, Str(textInput))
    => \A F \in SaveFaultChoices :
           LET T == After(Key("enter"), F)
           IN  /\ T.state = "FirstRunBackupDirView"
               /\ T.textInput = <<>>
               /\ T.cfgFile = cfgFile
               /\ ~T.initPending
               /\ T.db = db

\* what submitting v1 in FirstRunView does: v1 is held and the backup directory asked
SavePathHeld(T, v1) ==
    /\ T.state = "FirstRunBackupDirView"
    /\ T.tempSavePath = Str(v1)
    /\ T.textInput = <<>>
    /\ T.cfgFile = cfgFile

\* what submitting v2 in FirstRunBackupDirView does when config.json can be written:
\* both values are saved, the held path is cleared, the database open is started
FirstRunCompleted(T, v2) ==
    /\ T.cfgFile = [SavePath |-> tempSavePath, BackupDir |-> Str(v2),
                    AutoBackup |-> config.AutoBackup]
    /\ T.config = T.cfgFile
    /\ T.state = "InitializingView"
    /\ T.initPending
    /\ T.tempSavePath = ""
    /\ T.err = Nil

\* the save paths a user can type that are not blank
NonBlankPaths ==
    {v \in UNION {[1..n -> SetupTyped("FirstRunView")] : n \in 1..MaxText} :
        TrimSpace(v) # <<>>}

StaleClearHarmless ==
    run = "running" /\ timers >= 2 =>
        LET T == After(ClearNotificationMsg, NoFault)
        IN  /\ T.message = message
            /\ T.state = state
            /\ T.err = err

\* C25: while the state is InitializingView no key other than ctrl+c changes the
\* state; InitializingView is left only by the message that the database was opened
\* (to MainMenuView), and a reported failure only sets the error.
NoInputWhileInitializing ==
    run = "running" /\ state = "InitializingView" =>
        /\ \A k \in AllKeys \ {"ctrl+c"} : \A F \in Outcomes(Key(k)) :
              After(Key(k), F).state = "InitializingView"
        /\ \A msg \in AllMsgs :
              After(msg, NoFault).state # "InitializingView"
              => msg = DatabaseInitializedMsg \/ msg = Key("ctrl+c")

\* C26: 'y' in DeleteConfirmationView invokes DeleteBackups over exactly the records
\* at the selected positions of the listing, and afterwards the selection is empty
\* whether the deletion succeeded or failed; on success the state is MainMenuView.
ConfirmedDeleteClearsSelection ==
    run = "running" /\ err = Nil /\ state = "DeleteConfirmationView" =>
        \A F \in FaultChoices("y") :
            LET T == After(Key("y"), F)
            IN  /\ \A c \in OpsOf(T) :
                      c.op = "DeleteBackups" /\ c.arg = GetSelectedBackups(items, selected)
                /\ T.run = "running" => T.selected = {}
                /\ T.run = "running" /\ T.err = Nil => T.state = "MainMenuView"

\* C27: 'n' in DeleteConfirmationView returns to DeletingView with the selection,
\* the listing, the catalog and all files unchanged; and since no message but a
\* confirmation changes the selection while the confirmation is shown, the selection
\* is the one the confirmation was entered with.
DeclinedDelete ==
    run = "running" /\ err = Nil /\ state = "DeleteConfirmationView" =>
        /\ \A k \in {"n", "N"} :
              LET T == After(Key(k), NoFault)
              IN  /\ T.state = "DeletingView"
                  /\ T.selected = selected
                  /\ T.items = items
                  /\ T.dbs = dbs
                  /\ T.fs = fs
                  /\ OpsOf(T) = {}
        /\ \A msg \in AllMsgs \ {Key("y"), Key("Y"), Key("ctrl+c")} :
              LET T == After(msg, NoFault)
              IN  T.selected = selected /\ T.items = items

\* a confirmation was declined: the delete view shows again with one of two records
\* selected and both still in the catalog
DeclinedDeleteHappened ==
    /\ state = "DeletingView"
    /\ previous = "DeleteConfirmationView"
    /\ Len(items) = 2
    /\ Cardinality(selected) = 1
    /\ \A i \in 1..2 : items[i] \in Rows(Snap) /\ Exists(fs, items[i].Path)

\* C28: enter in DeletingView while nothing is selected is a no-op: the state stays
\* DeletingView, the selection, the listing, the cursor, the catalog and the files are
\* unchanged and no engine call is made.
SubmitWithNothingSelected ==
    run = "running" /\ err = Nil /\ state = "DeletingView" /\ selected = {} =>
        \A F \in FaultChoices("enter") :
            LET T == After(Key("enter"), F)
            IN  /\ T.run = "running" /\ T.err = Nil
                /\ T.state = "DeletingView"
                /\ T.previous = previous
                /\ T.selected = {}
                /\ T.items = items
                /\ T.index = index
                /\ T.dbs = dbs
                /\ T.fs = fs
                /\ OpsOf(T) = {}

\* the delete view lists records, none selected, and takes keys
NothingSelectedHappened ==
    /\ run = "running" /\ err = Nil /\ inbox = {}
    /\ state = "DeletingView"
    /\ previous = "MainMenuView"
    /\ selected = {}
    /\ Len(items) = 2

\* the selection with the membership of i flipped
Flipped(sel, i) == IF i \in sel THEN sel \ {i} ELSE sel \cup {i}

\* C29: space in DeletingView flips the membership of the highlighted index in the
\* selection and leaves every other index, the state, the listing and the catalog
\* unchanged; a second space at the same index restores the selection.
ToggleFlips ==
    run = "running" /\ err = Nil /\ state = "DeletingView" =>
        LET T == After(Key(" "), NoFault)
            U == Update(T, Key(" "), NoFault)
        IN  /\ T.selected = Flipped(selected, index)
            /\ \A i \in (selected \cup T.selected) \ {index} :
                   (i \in T.selected) <=> (i \in selected)
            /\ (index \in T.selected) <=> (index \notin selected)
            /\ T.state = "DeletingView" /\ T.index = index /\ T.items = items
            /\ T.dbs = dbs /\ T.fs = fs /\ OpsOf(T) = {}
            /\ U.selected = selected
            /\ U.state = "DeletingView" /\ U.dbs = dbs /\ U.fs = fs

\* toggles have acted: of two listed records the second is selected while the
\* cursor rests on the first, which is not
ToggleFlipsHappened ==
    /\ run = "running" /\ err = Nil
    /\ state = "DeletingView"
    /\ Len(items) = 2
    /\ index = 0
    /\ selected = {1}

\* C30: in DeletingView select-all makes the selection exactly the positions
\* 0..n-1 of the n listed records, empty when n = 0, and deselect-all makes it
\* empty, whatever was selected before; the state and the catalog are unchanged.
SelectAllExact ==
    run = "running" /\ err = Nil /\ state = "DeletingView" =>
        LET A == After(Key("right"), NoFault)
            D == After(Key("left"), NoFault)
        IN  /\ A.selected = 0..(Len(items) - 1)
            /\ D.selected = {}
            /\ A.state = "DeletingView" /\ A.dbs = dbs /\ A.fs = fs
            /\ D.state = "DeletingView" /\ D.dbs = dbs /\ D.fs = fs

\* C31: whenever the selection can be used (DeletingView, DeleteConfirmationView)
\* every selected index is a position of the displayed listing, 0 <= i < Len(items),
\* also when the listing is empty; so a confirmed delete of a non-empty selection
\* passes at least one record to DeleteBackups.
SelectionIndicesValid ==
    run = "running" /\ state \in {"DeletingView", "DeleteConfirmationView"} =>
        /\ selected \subseteq 0..(Len(items) - 1)
        /\ (state = "DeleteConfirmationView" /\ err = Nil /\ selected # {}) =>
               GetSelectedBackups(items, selected) # <<>>

\* C32: when a confirmed deletion succeeds, the count in the notification is the
\* number of records that deletion removed from the catalog.
ReportedDeleteCount ==
    run = "running" /\ err = Nil /\ state = "DeleteConfirmationView" =>
        \A F \in FaultChoices("y") :
            LET T == After(Key("y"), F)
                removed == Cardinality(Rows(Snap) \ Rows(T))
            IN  T.run = "running" /\ T.err = Nil =>
                    T.message = "Deleted " \o ToString(removed) \o " backup(s)"

\* the text-input views an escape can cancel
CancellableViews == {"CreateBackupView", "ChangeSavePathView", "ChangeBackupDirView"}

\* the menu a text-input view is entered from
PriorMenu(v) == IF v = "CreateBackupView" THEN "MainMenuView" ELSE "SettingsView"

\* what an escape leaves alone: configuration, its file, the catalog and all files
NothingCommitted(T) ==
    /\ T.config = config /\ T.cfgFile = cfgFile
    /\ T.db = db /\ T.dbs = dbs /\ T.fs = fs
    /\ OpsOf(T) = {}

\* C33 (amended): esc in CreateBackupView, ChangeSavePathView or ChangeBackupDirView
\* goes to MainMenuView, also from the two views entered from SettingsView, and
\* commits nothing: configuration, configuration file, catalog and files are unchanged.
EscapeCancelsToMainMenu ==
    run = "running" /\ err = Nil /\ state \in CancellableViews =>
        LET T == After(Key("esc"), NoFault)
        IN  /\ T.run = "running" /\ T.err = Nil
            /\ T.state = "MainMenuView"
            /\ T.previous = state
            /\ NothingCommitted(T)

\* C33 as stated: esc returns to the menu the text-input view was entered from
\* (SettingsView for the two settings inputs) and commits nothing.
EscapeReturnsToPriorMenu ==
    run = "running" /\ err = Nil /\ state \in CancellableViews =>
        LET T == After(Key("esc"), NoFault)
        IN  T.state = PriorMenu(state) /\ NothingCommitted(T)

\* a settings input was left by escape with text typed into it: the main menu shows
\* and the configuration is still the one first run stored
EscapeCancelsHappened ==
    /\ run = "running" /\ err = Nil
    /\ state = "MainMenuView"
    /\ previous \in {"ChangeSavePathView", "ChangeBackupDirView"}
    /\ TrimSpace(textInput) # <<>>
    /\ cfgFile # NoConfigFile
    /\ config = cfgFile

\* C34: once the catalog store has been opened, the store that is read and written
\* is the one in the configured backup directory, also after the backup directory
\* has been changed in the settings.
CatalogFollowsBackupDir ==
    run = "running" /\ err = Nil /\ db # Nil => db = config.BackupDir

\* what the last engine call of a step reports to have made
MadeBy(T) == T.last.ops[Len(T.last.ops)].out

\* CreateBackup(name) failing at the insert in the current state, followed by a
\* CreateBackup(name) that succeeds: the failed call returns the error, its copy is a
\* new file holding the source's bytes, the catalog is unchanged, and the following
\* call leaves the copy alone and writes to a suffixed name
OrphanLeft(name) ==
    LET T == SvcCreateBackup(Api("CreateBackup"), name, "insert")
        orphan == MadeBy(T)
        U == SvcCreateBackup(T, name, "none")
        next == MadeBy(U)
        given == GivenName(name, now)
    IN  /\ T.ret # Nil /\ T.run = "running"
        /\ ~Exists(fs, orphan.Path)
        /\ Exists(T.fs, orphan.Path)
        /\ T.fs[orphan.Path] = fs[config.SavePath]
        /\ Touched(fs, T.fs) = {orphan.Path}
        /\ T.dbs = dbs
        /\ U.ret = Nil
        /\ next.Path # orphan.Path
        /\ U.fs[orphan.Path] = T.fs[orphan.Path]
        /\ GivenName(name, T.now) = given =>
               \E k \in 1..Cardinality(DOMAIN T.fs) : next.Name = Suffixed(given, k)

\* the records naming the path of the copy an insert failure leaves
RecordsOfOrphan(name) ==
    LET T == SvcCreateBackup(Api("CreateBackup"), name, "insert")
    IN  {r \in Rows(T) : r.Path = MadeBy(T).Path}

ClearOnlyClears ==
    run = "running" =>
        LET T == After(ClearNotificationMsg, NoFault)
        IN  /\ T.message = ""
            /\ T.run = "running"
            /\ T.state = state /\ T.previous = previous
            /\ T.selected = selected /\ T.items = items /\ T.index = index
            /\ T.err = err /\ T.textInput = textInput
            /\ T.config = config /\ T.cfgFile = cfgFile
            /\ T.db = db /\ T.dbs = dbs /\ T.fs = fs
            /\ OpsOf(T) = {}

\* C36: a notification on display is eventually cleared, given that every timer
\* started is eventually delivered; and handling a clear-notification message
\* changes nothing but the notification: state, selection, configuration, catalog
\* and files are unchanged.
NotificationsTransient ==
    /\ []ClearOnlyClears
    /\ (message # "") ~> (message = "")

\* the notification of a successful CreateBackup is gone and every timer has fired
NotificationClearedHappened ==
    /\ run = "running" /\ err = Nil
    /\ state = "MainMenuView"
    /\ Rows(Snap) # {}
    /\ message = ""
    /\ timers = 0

\* the views shown before the catalog store is opened
PreStoreViews == {"InitializingView", "FirstRunView", "FirstRunBackupDirView"}

\* C37: no catalog operation runs on an unopened store (no nil handle is ever
\* dereferenced), and MainMenuView and the views reached from it are shown only
\* after the store was opened.
StoreOpenedBeforeUse ==
    /\ run # "panic"
    /\ run = "running" /\ state \notin PreStoreViews => db # Nil

\* C38: CreateBackup returns, with success or with an error, for every name and
\* whatever the existence probe of the candidate paths answers: present, absent, or
\* a failure other than not-found.
CreateBackupTerminates ==
    run = "running" /\ db # Nil =>
        \A name \in ApiNames, fault \in CreateFaults :
            LET T == SvcCreateBackup(Api("CreateBackup"), name, fault)
            IN  T.run = "running"

\* the text-input views in which a character key must only edit the text
EntryViews ==
    {"FirstRunBackupDirView", "CreateBackupView", "ChangeSavePathView", "ChangeBackupDirView"}

\* C39: in a text-input view a printable character key, 'q' included, only edits
\* the text: the state is unchanged and the character is appended to the input.
TextEntryDoesNotNavigate ==
    run = "running" /\ err = Nil /\ state \in EntryViews =>
        \A k \in Printable :
            LET T == After(Key(k), NoFault)
            IN  /\ T.state = state
                /\ T.textInput = Append(textInput, k)
                /\ T.config = config /\ T.dbs = dbs /\ T.fs = fs

====
